---- MODULE Spec2Model ----
(***************************************************************************)
(* Pick eligibility, scoring and live-result synchronisation of the        *)
(* nfl_pickem prediction pool.                                             *)
(*                                                                         *)
(* The persisted state is the games table (final flag and scores), the     *)
(* picks table and the season's current week.  Wall-clock time is the      *)
(* variable now; a game has started once now has reached its game_time.    *)
(* Every request handler and every scheduler job is one action; the status *)
(* poll is followed step by step through its second phase, and a request   *)
(* that overlaps another one through its validation and its commit.        *)
(*                                                                         *)
(* Conventions: a NULL column is NoGroup (group_id), NoScore (scores) or   *)
(* the string "null" (is_correct, a nullable boolean, is "true", "false"   *)
(* or "null").  points_earned is counted in half points, so that the 0.5   *)
(* of a tie is the integer 1 and the 1.0 of a win is 2.                    *)
(***************************************************************************)
EXTENDS Integers, FiniteSets, Sequences, TLC

VARIABLES
    now,            \* wall clock
    games,          \* games[g] = [is_final, home_score, away_score]
    picks,          \* the rows of the picks table
    current_week,   \* Season.current_week
    sync_stats,     \* SchedulerService.sync_stats
    inflight,       \* requests that have validated and not yet committed
    tick,           \* the status poll in progress: its phase and its session
    snapshots,      \* the rows of the regular_season_snapshots table
    is_complete,    \* Season.is_complete
    awards,         \* the rows of the season_winners table
    notified,       \* how many times the season-end notifications were sent
    running,        \* the job executions in progress
    last            \* the last handler or job that ran, with its inputs and its answer

vars == <<now, games, picks, current_week, sync_stats, inflight, tick,
          snapshots, is_complete, awards, notified, running, last>>

\* the season's end: snapshots, completion, awards and notifications
season_end == <<snapshots, is_complete, awards, notified>>

----------------------------------------------------------------------------
(* Bounds of the model *)

MaxTime == 3         \* the clock runs from 0 to MaxTime
MaxPoints == 1       \* the two scores of a final game add up to at most MaxPoints
MaxFailedSyncs == 1  \* failed_syncs is counted up to this value
MaxRequests == 2     \* concurrent requests that are followed from validation to commit
MaxExecutions == 2   \* job executions that are followed from their start to their return

(* Program constants *)

regular_season_weeks == 2
playoff_weeks == 1
regular_season_points == 1
six_hours == 0      \* the status poll's look-ahead, in clock units
max_retries == 3    \* rate_limit_decorator(max_retries=3) on _make_api_request
playoff_places == 1     \* ranks that are playoff eligible (4 in the code)
superbowl_places == 1   \* playoff ranks that are Super Bowl eligible (2 in the code)
three_days == 1     \* get_current_week_auto's look-ahead, in clock units

NoGroup == 0
NoScore == -1

----------------------------------------------------------------------------
(* The schedule: teams, games, weeks and kick-off times.  Three games in    *)
(* week 1 (game 5 is played late, after the game of week 2), one in week   *)
(* 2, one in the elimination week 3.                                       *)

GameIds == 1 .. 5
Users == {1, 2}
Pickers == {1}
SyncGames == {1}

\* Game 6 is a game of the season before, still in the games table: it was
\* played in that season's week 1 and is final.
PastGames == {6}

\* Game 7 is a second game of week 2, for the requests that switch games in
\* a week that has earlier weeks before it.
ExtraGames == {7}

home_team_id == <<1, 3, 2, 3, 5, 1, 1>>
away_team_id == <<2, 4, 3, 1, 6, 2, 4>>
game_week == <<1, 1, 2, 3, 1, 1, 2>>
game_time == <<1, 2, 3, 4, 4, 0, 3>>

\* Season.id of the active season, and Game.season_id
current_season_id == 2

game_season_id(g) == IF g \in PastGames THEN current_season_id - 1 ELSE current_season_id

\* User.picks_are_global: user 1 picks per pool (the default), user 2 keeps one
\* global pick stream.
picks_are_global == [u \in Users |-> u = 2]

\* The pool the requests are made in.
current_group == 1

TeamsOf(g) == {home_team_id[g], away_team_id[g]}

\* None, where a query finds no pick
NoPick ==
    [id |-> 0, user_id |-> 0, game_id |-> 0, season_id |-> 0, group_id |-> NoGroup,
     selected_team_id |-> 0, is_correct |-> "null", points_earned |-> 0,
     tiebreaker_points |-> 0]

\* Query.first(): one of the matching rows, or None.
First(rows) == IF rows = {} THEN {NoPick} ELSE rows

\* The primary key of a new row.  The code uses a pick's id only to tell rows
\* apart, so a row is numbered among the rows of its user, game and group: the
\* row is identified by (user_id, game_id, group_id, id).
NewId(rows, u, g, grp) ==
    LET same == {p \in rows : p.user_id = u /\ p.game_id = g /\ p.group_id = grp}
    IN CHOOSE i \in 1 .. (Cardinality(same) + 1) : \A p \in same : p.id # i

Abs(x) == IF x < 0 THEN -x ELSE x

----------------------------------------------------------------------------
(* Game *)

has_started(g) == now >= game_time[g]

is_pickable(g) == ~has_started(g) /\ ~games[g].is_final

is_tie(gs, g) == gs[g].is_final /\ gs[g].home_score = gs[g].away_score

\* 0 when there is no winning team
winning_team(gs, g) ==
    IF ~gs[g].is_final \/ gs[g].home_score = gs[g].away_score THEN 0
    ELSE IF gs[g].home_score > gs[g].away_score THEN home_team_id[g]
    ELSE away_team_id[g]

margin_of_victory(gs, g) == Abs(gs[g].home_score - gs[g].away_score)

(* Season *)

is_playoff_week(w) == w > regular_season_weeks

----------------------------------------------------------------------------
(* Scoring *)

calculate_pick_score_playoff_doubled(gs, p) ==
    LET base == IF ~gs[p.game_id].is_final THEN 0
                ELSE IF is_tie(gs, p.game_id) THEN regular_season_points
                ELSE IF winning_team(gs, p.game_id) = 0 THEN 0
                ELSE IF p.selected_team_id # winning_team(gs, p.game_id) THEN 0
                ELSE 2 * regular_season_points
    IN IF is_playoff_week(game_week[p.game_id]) THEN 2 * base ELSE base

\* ScoringEngine.calculate_pick_score, in half points
calculate_pick_score(gs, p) ==
    IF ~gs[p.game_id].is_final THEN 0
    ELSE IF is_tie(gs, p.game_id) THEN regular_season_points
    ELSE IF winning_team(gs, p.game_id) = 0 THEN 0
    ELSE IF p.selected_team_id # winning_team(gs, p.game_id) THEN 0
    ELSE 2 * regular_season_points

update_result_on_accumulating(gs, p, g) ==
    LET q == [p EXCEPT !.game_id = g] IN
    IF ~gs[g].is_final THEN p
    ELSE IF is_tie(gs, g) THEN
        [p EXCEPT !.is_correct = "null",
                  !.points_earned = @ + calculate_pick_score(gs, q),
                  !.tiebreaker_points = 0]
    ELSE IF p.selected_team_id = winning_team(gs, g) THEN
        [p EXCEPT !.is_correct = "true",
                  !.points_earned = @ + calculate_pick_score(gs, q),
                  !.tiebreaker_points = @ + margin_of_victory(gs, g)]
    ELSE
        [p EXCEPT !.is_correct = "false",
                  !.tiebreaker_points = @ - margin_of_victory(gs, g)]

\* Pick.update_result with self.game = g: the pick as it is afterwards.
\* g is the game the pick's game relationship holds, which the callers pass.
update_result_on(gs, p, g) ==
    LET q == [p EXCEPT !.game_id = g] IN
    IF ~gs[g].is_final THEN p
    ELSE IF is_tie(gs, g) THEN
        [p EXCEPT !.is_correct = "null",
                  !.points_earned = calculate_pick_score(gs, q),
                  !.tiebreaker_points = 0]
    ELSE IF p.selected_team_id = winning_team(gs, g) THEN
        [p EXCEPT !.is_correct = "true",
                  !.points_earned = calculate_pick_score(gs, q),
                  !.tiebreaker_points = margin_of_victory(gs, g)]
    ELSE
        [p EXCEPT !.is_correct = "false",
                  !.points_earned = 0,
                  !.tiebreaker_points = -margin_of_victory(gs, g)]

update_result(gs, p) == update_result_on(gs, p, p.game_id)

----------------------------------------------------------------------------
(* Pick eligibility: User.can_pick_team and _process_single_pick *)

\* group_id of a request of user u: None for a global picker, else the pool
group_id_of(u) == IF picks_are_global[u] THEN NoGroup ELSE current_group

\* pick_filter of can_pick_team and of the opponent check: the picker's rows of
\* the pool-scope, without the excluded row (exclude = NoPick is None)
pick_filter(rows, u, grp, exclude) ==
    {p \in rows : /\ p.user_id = u /\ p.season_id = current_season_id
                  /\ p.group_id = grp /\ p # exclude}

previous_week_picks(rows, u, week, grp, exclude) ==
    {p \in pick_filter(rows, u, grp, exclude) : game_week[p.game_id] = week - 1}

can_pick_team_losing_rule_first(rows, u, team, week, grp, exclude, prev) ==
    IF week > 1 /\ prev.id # 0 /\ prev.is_correct = "false"
       /\ prev.selected_team_id = team
    THEN "Cannot pick losing team from previous game week"
    ELSE IF ~is_playoff_week(week)
            /\ team \in {p.selected_team_id : p \in pick_filter(rows, u, grp, exclude)}
    THEN "Team already used this season"
    ELSE "Team available"

can_pick_team_used_rule_dropped(rows, u, team, week, grp, exclude, prev) ==
    IF week > 1 /\ prev.id # 0 /\ prev.is_correct = "false"
       /\ prev.selected_team_id = team
    THEN "Cannot pick losing team from previous game week"
    ELSE "Team available"

\* User.can_pick_team; prev is what the previous-week query's first() returned
can_pick_team(rows, u, team, week, grp, exclude, prev) ==
    IF ~is_playoff_week(week)
       /\ team \in {p.selected_team_id : p \in pick_filter(rows, u, grp, exclude)}
    THEN "Team already used this season"
    ELSE IF week > 1 /\ prev.id # 0 /\ prev.is_correct = "false"
            /\ prev.selected_team_id = team
    THEN "Cannot pick losing team from previous game week"
    ELSE "Team available"

\* the team playing against team in game g
opponent_of(g, team) ==
    IF team = away_team_id[g] THEN home_team_id[g] ELSE away_team_id[g]

opponent_rule_pick_only(g, team, prev) ==
    /\ ~is_playoff_week(game_week[g])
    /\ game_week[g] > 1
    /\ prev.id # 0
    /\ opponent_of(g, team) = prev.selected_team_id

\* the consecutive-opponent check of _process_single_pick; prev is what its
\* previous-week query's first() returned
opponent_rule(g, team, prev) ==
    /\ ~is_playoff_week(game_week[g])
    /\ game_week[g] > 1
    /\ prev.id # 0
    /\ opponent_of(g, team) \in TeamsOf(prev.game_id)

existing_picks(rows, u, g, grp) ==
    {p \in rows : p.user_id = u /\ p.game_id = g /\ p.group_id = grp}

existing_week_picks(rows, u, g, grp) ==
    {p \in rows : /\ p.user_id = u
                  /\ p.season_id = current_season_id
                  /\ game_week[p.game_id] = game_week[g]
                  /\ p.game_id # g
                  /\ p.group_id = grp}

new_pick(rows, u, g, team, grp) ==
    [id |-> NewId(rows, u, g, grp), user_id |-> u, game_id |-> g,
     season_id |-> current_season_id, group_id |-> grp,
     selected_team_id |-> team, is_correct |-> "null", points_earned |-> 0,
     tiebreaker_points |-> 0]

\* the write at the end of _process_single_pick: the old week pick goes when
\* del holds, then the existing pick is updated or a new one is added
write_pick(rows, u, g, team, grp, ep, ewp, del) ==
    LET kept == IF del THEN rows \ {ewp} ELSE rows IN
    IF ep.id # 0
    THEN (kept \ {ep}) \cup {[ep EXCEPT !.selected_team_id = team]}
    ELSE kept \cup {new_pick(kept, u, g, team, grp)}

process_single_pick_switch_check_first(u, g, team, is_admin, ep, ewp, prev_a, prev_b) ==
    LET grp == group_id_of(u)
        exclude == IF ep.id # 0 THEN ep ELSE ewp
        reason == can_pick_team(picks, u, team, game_week[g], grp, exclude, prev_a)
    IN
    IF team \notin TeamsOf(g) THEN
        [ok |-> FALSE, reason |-> "Team is not playing in this game", picks |-> picks, deleted |-> 0]
    ELSE IF ~is_admin /\ ~is_pickable(g) THEN
        [ok |-> FALSE, reason |-> "Game no longer available for picks", picks |-> picks, deleted |-> 0]
    ELSE IF ~is_admin /\ ewp.id # 0 /\ has_started(ewp.game_id) THEN
        [ok |-> FALSE, reason |-> "Cannot switch pick", picks |-> picks, deleted |-> 0]
    ELSE IF ~is_admin /\ reason # "Team available" THEN
        [ok |-> FALSE, reason |-> reason, picks |-> picks, deleted |-> 0]
    ELSE IF ~is_admin /\ opponent_rule(g, team, prev_b) THEN
        [ok |-> FALSE, reason |-> "Opponent was involved in previous week pick",
         picks |-> picks, deleted |-> 0]
    ELSE
        [ok |-> TRUE,
         reason |-> IF ep.id # 0 THEN "Pick updated" ELSE "Pick created",
         picks |-> write_pick(picks, u, g, team, grp, ep, ewp,
                              ewp.id # 0 /\ ~is_admin),
         deleted |-> IF ewp.id # 0 /\ ~is_admin THEN ewp.game_id ELSE 0]

\* _process_single_pick for one form entry pick_<g> = team of target user u.
\* ep, ewp, prev_a and prev_b are what the four first() queries returned: the
\* pick on this game, the pick on another game of the week, and the previous
\* week's pick as can_pick_team and as the opponent check read it.
process_single_pick(u, g, team, is_admin, ep, ewp, prev_a, prev_b) ==
    LET grp == group_id_of(u)
        exclude == IF ep.id # 0 THEN ep ELSE ewp
        reason == can_pick_team(picks, u, team, game_week[g], grp, exclude, prev_a)
    IN
    IF team \notin TeamsOf(g) THEN
        [ok |-> FALSE, reason |-> "Team is not playing in this game", picks |-> picks, deleted |-> 0]
    ELSE IF ~is_admin /\ ~is_pickable(g) THEN
        [ok |-> FALSE, reason |-> "Game no longer available for picks", picks |-> picks, deleted |-> 0]
    ELSE IF ~is_admin /\ reason # "Team available" THEN
        [ok |-> FALSE, reason |-> reason, picks |-> picks, deleted |-> 0]
    ELSE IF ~is_admin /\ opponent_rule(g, team, prev_b) THEN
        [ok |-> FALSE, reason |-> "Opponent was involved in previous week pick",
         picks |-> picks, deleted |-> 0]
    ELSE IF ~is_admin /\ ewp.id # 0 /\ has_started(ewp.game_id) THEN
        [ok |-> FALSE, reason |-> "Cannot switch pick", picks |-> picks, deleted |-> 0]
    ELSE
        [ok |-> TRUE,
         reason |-> IF ep.id # 0 THEN "Pick updated" ELSE "Pick created",
         picks |-> write_pick(picks, u, g, team, grp, ep, ewp,
                              ewp.id # 0 /\ ~is_admin),
         deleted |-> IF ewp.id # 0 /\ ~is_admin THEN ewp.game_id ELSE 0]

----------------------------------------------------------------------------
(* State *)

\* before holds the stored picks of the newly final games as phase 2 found them
NoTick == [phase |-> "idle", newly_final |-> {}, todo |-> {}, game |-> 0,
           loaded |-> {}, session |-> {}, before |-> {}]

\* what a handler or job answered: its inputs, whether it succeeded, its
\* message, the game whose pick it deleted and the games it made final; for
\* the status poll also the games whose feed call failed for good and the
\* greatest number of attempts it made on one call; for a job, whether it
\* cleared the cache (invalidate_model_cache) and the pick_result payloads it
\* emitted
Answer(op, u, g, team, admin, ok, reason, deleted, finalized) ==
    [op |-> op, user |-> u, game |-> g, team |-> team,
     week |-> IF g \in GameIds THEN game_week[g] ELSE 0,
     admin |-> admin, ok |-> ok, reason |-> reason, deleted |-> deleted,
     finalized |-> finalized, feed_failed |-> {}, attempts |-> 0,
     invalidated |-> FALSE, pick_results |-> {}]

JobAnswer(op, ok, reason, g, finalized) ==
    Answer(op, 0, g, 0, FALSE, ok, reason, 0, finalized)

Init ==
    /\ now = 0
    /\ games = [g \in GameIds |->
                  [is_final |-> FALSE, home_score |-> NoScore, away_score |-> NoScore]]
    /\ picks = {}
    /\ current_week = 1
    /\ sync_stats = [failed_syncs |-> 0, last_error |-> "none"]
    /\ inflight = {}
    /\ tick = NoTick
    /\ snapshots = {}
    /\ is_complete = FALSE
    /\ awards = {}
    /\ notified = 0
    /\ running = {}
    /\ last = JobAnswer("init", TRUE, "", 0, {})

\* time passes
AdvanceClock ==
    /\ now < MaxTime
    /\ now' = now + 1
    /\ last' = JobAnswer("clock", TRUE, "", 0, {})
    /\ UNCHANGED <<games, picks, current_week, sync_stats, inflight, tick>>
    /\ UNCHANGED <<season_end, running>>

----------------------------------------------------------------------------
(* submit_picks with one form entry pick_<g> = team: the entry is processed *)
(* and the session committed.                                              *)

\* what _process_single_pick can return for the entry, over the rows its
\* first() queries may return
process_results(u, g, team, is_admin) ==
    LET grp == group_id_of(u) IN
    UNION {
      LET exclude == IF ep.id # 0 THEN ep ELSE ewp
          prevs == First(previous_week_picks(picks, u, game_week[g], grp, exclude))
      IN {[r |-> process_single_pick(u, g, team, is_admin, ep, ewp, prev_a, prev_b),
           ep |-> ep, ewp |-> ewp] : prev_a \in prevs, prev_b \in prevs} :
      ep \in First(existing_picks(picks, u, g, grp)),
      ewp \in First(existing_week_picks(picks, u, g, grp))}

SubmitPick(u, g, team, is_admin) ==
    \E res \in process_results(u, g, team, is_admin) :
        /\ picks' = res.r.picks
        /\ last' = Answer("submit_picks", u, g, team, is_admin,
                          res.r.ok, res.r.reason, res.r.deleted, {})
        /\ UNCHANGED <<now, games, current_week, sync_stats, inflight, tick>>
        /\ UNCHANGED <<season_end, running>>

\* requests of the users us on the games gs
Submits(us, gs, is_admin) ==
    \E u \in us, g \in gs : \E team \in TeamsOf(g) : SubmitPick(u, g, team, is_admin)

PickerSubmits == Submits(Pickers, GameIds, FALSE)

AdminSubmits == Submits(Pickers, GameIds, TRUE)

----------------------------------------------------------------------------
(* Concurrent submit_picks requests: a request reads the committed rows and  *)
(* validates (BeginSubmit), and its writes reach the store when it commits  *)
(* (CommitSubmit), possibly after another request has validated.            *)

BeginSubmit(u, g, team) ==
    /\ Cardinality(inflight) < MaxRequests
    /\ \E res \in process_results(u, g, team, FALSE) :
         /\ inflight' =
              IF res.r.ok
              THEN inflight \cup
                   {[id |-> Cardinality(inflight) + 1, user |-> u, game |-> g, team |-> team,
                     ep |-> res.ep, ewp |-> res.ewp, status |-> "validated",
                     overlaps |-> {q.id : q \in {x \in inflight : x.status = "validated"}}]}
              ELSE inflight
         /\ last' = Answer("submit_picks", u, g, team, FALSE, res.r.ok,
                           IF res.r.ok THEN "validated" ELSE res.r.reason, 0, {})
    /\ UNCHANGED <<now, games, picks, current_week, sync_stats, tick>>
    /\ UNCHANGED <<season_end, running>>

\* the picks.unique_user_game_group_pick constraint: would inserting the row
\* violate it.  A NULL group_id never equals another NULL.
unique_violation(rows, row) ==
    \E p \in rows : /\ p.user_id = row.user_id
                    /\ p.game_id = row.game_id
                    /\ p.group_id = row.group_id
                    /\ row.group_id # NoGroup

\* the row of the store with the primary key of row, if it is still there
stored(rows, row) ==
    {p \in rows : /\ p.id = row.id /\ p.user_id = row.user_id
                  /\ p.game_id = row.game_id /\ p.group_id = row.group_id}

\* db.session.commit() of a validated request r: its DELETE, then its UPDATE
\* or INSERT.  An UPDATE that finds no row and an INSERT that violates the
\* constraint raise, and submit_picks rolls the transaction back.
CommitSubmit(r) ==
    /\ r.status = "validated"
    /\ LET grp == group_id_of(r.user)
           kept == IF r.ewp.id # 0 THEN picks \ stored(picks, r.ewp) ELSE picks
           row == new_pick(kept, r.user, r.game, r.team, grp)
           raised == IF r.ep.id # 0 THEN stored(kept, r.ep) = {}
                     ELSE unique_violation(kept, row)
       IN
       /\ picks' = IF raised THEN picks
                   ELSE IF r.ep.id # 0
                   THEN (kept \ stored(kept, r.ep))
                        \cup {[p EXCEPT !.selected_team_id = r.team] : p \in stored(kept, r.ep)}
                   ELSE kept \cup {row}
       /\ inflight' = (inflight \ {r})
                      \cup {[r EXCEPT !.status = IF raised THEN "rolled back" ELSE "committed"]}
       /\ last' = Answer("commit", r.user, r.game, r.team, FALSE, ~raised,
                         IF raised THEN "An error occurred while saving picks"
                         ELSE "Successfully saved",
                         IF ~raised /\ r.ewp.id # 0 THEN r.ewp.game_id ELSE 0, {})
    /\ UNCHANGED <<now, games, current_week, sync_stats, tick>>
    /\ UNCHANGED <<season_end, running>>

BeginSubmits ==
    \E u \in Pickers, g \in GameIds : \E team \in TeamsOf(g) : BeginSubmit(u, g, team)

CommitSubmits == \E r \in inflight : CommitSubmit(r)

----------------------------------------------------------------------------
(* The Results Feed and DataSync *)

\* What the feed answers for a game: nothing usable (an error, or a game in
\* progress without scores), or the final scores of a completed game.
NoNews == [completed |-> FALSE, home |-> NoScore, away |-> NoScore]

FinalScores == {hs \in (0 .. MaxPoints) \X (0 .. MaxPoints) : hs[1] + hs[2] <= MaxPoints}

FinalAnswers == {[completed |-> TRUE, home |-> hs[1], away |-> hs[2]] : hs \in FinalScores}

\* the answers of the feed for the games gs, when it has results of the games
\* of reported only.  A game that has not started is not reported completed.
Feed(gs, reported) ==
    LET played == {g \in gs \cap reported : has_started(g)} IN
    {[g \in gs |-> IF g \in played THEN f[g] ELSE NoNews] :
        f \in [played -> {NoNews} \cup FinalAnswers]}

\* DataSync._update_game_score: whether the row changed (its return value)
score_updated(row, ans) ==
    \/ /\ ans.home # NoScore
       /\ ans.away # NoScore
       /\ (row.home_score # ans.home \/ row.away_score # ans.away)
    \/ ans.completed # row.is_final

\* DataSync._update_game_score: the row afterwards
update_game_score(row, ans) ==
    IF score_updated(row, ans)
    THEN [is_final |-> ans.completed,
          home_score |-> IF ans.home # NoScore THEN ans.home ELSE row.home_score,
          away_score |-> IF ans.away # NoScore THEN ans.away ELSE row.away_score]
    ELSE row

\* the games table after _update_game_score on each game of gs
update_scores(gs, ans) ==
    [g \in DOMAIN games |-> IF g \in gs THEN update_game_score(games[g], ans[g]) ELSE games[g]]

\* the games of gs that the answers ans change, and those they make final
updated_games(gs, ans) == {g \in gs : score_updated(games[g], ans[g])}

newly_final_games(gs, ans) ==
    {g \in updated_games(gs, ans) : ~games[g].is_final /\ ans[g].completed}

\* SchedulerService._update_stats and the handlers' last_error
stats_success == [sync_stats EXCEPT !.last_error = "none"]

stats_failure ==
    [failed_syncs |-> IF sync_stats.failed_syncs < MaxFailedSyncs
                      THEN sync_stats.failed_syncs + 1 ELSE sync_stats.failed_syncs,
     last_error |-> "error"]

----------------------------------------------------------------------------
(* Season.get_current_week_auto and update_current_week *)

GamesOfWeek(w) == {g \in GameIds : game_week[g] = w}

Min(S) == CHOOSE x \in S : \A y \in S : x <= y

Max(S) == CHOOSE x \in S : \A y \in S : x >= y

\* the week the loop of get_current_week_auto returns, looking at weeks w..
RECURSIVE week_auto(_, _)
week_auto(gs, w) ==
    IF w > regular_season_weeks + playoff_weeks THEN Max({game_week[g] : g \in GameIds})
    ELSE IF GamesOfWeek(w) = {} THEN week_auto(gs, w + 1)
    ELSE LET first == Min({game_time[g] : g \in GamesOfWeek(w)})
             final == Max({game_time[g] : g \in GamesOfWeek(w)})
         IN IF now < first
            THEN IF first - now <= three_days THEN w ELSE week_auto(gs, w + 1)
            ELSE IF now <= final THEN w
            ELSE IF \E g \in GamesOfWeek(w) : ~gs[g].is_final THEN w
            ELSE week_auto(gs, w + 1)

get_current_week_auto(gs) == week_auto(gs, 1)

----------------------------------------------------------------------------
(* Standings: User.get_season_stats and the two leaderboards *)

\* the active members of the pool current_group
group_members == Users

\* Pick.query.filter_by(**build_pick_filter(season_id, group_id)): all the
\* picker's rows when the picker is global or no pool is asked for
stats_picks(rows, u, grp) ==
    {p \in rows : /\ p.user_id = u
                  /\ (picks_are_global[u] \/ grp = NoGroup \/ p.group_id = grp)}

RECURSIVE SumOver(_, _)
SumOver(rows, field) ==
    IF rows = {} THEN 0
    ELSE LET p == CHOOSE q \in rows : TRUE
         IN p[field] + SumOver(rows \ {p}, field)

\* _compute_stats_for_picks over the picks of the regular season (playoff =
\* FALSE) or of the playoffs: wins, score and tiebreaker of the completed picks
compute_stats(rows, gs, u, grp, playoff) ==
    LET completed == {p \in stats_picks(rows, u, grp) :
                         /\ is_playoff_week(game_week[p.game_id]) = playoff
                         /\ gs[p.game_id].is_final}
    IN [wins |-> Cardinality({p \in completed : p.is_correct = "true"}),
        score |-> SumOver(completed, "points_earned"),
        tiebreaker |-> SumOver(completed, "tiebreaker_points")]

\* the orders sort(key, reverse=True) can leave the users us in: descending
\* in (k1, k2), users of equal keys in the order the query returned them
Orders(us, k1(_), k2(_)) ==
    {f \in [1 .. Cardinality(us) -> us] :
        /\ \A i, j \in DOMAIN f : i # j => f[i] # f[j]
        /\ \A i, j \in DOMAIN f :
              i < j => \/ k1(f[i]) > k1(f[j])
                       \/ k1(f[i]) = k1(f[j]) /\ k2(f[i]) >= k2(f[j])}

\* regular-season stats, or the total of regular season and playoffs
season_stats(rows, gs, u, grp, regular_only) ==
    LET regular == compute_stats(rows, gs, u, grp, FALSE)
        playoffs == compute_stats(rows, gs, u, grp, TRUE)
    IN IF regular_only THEN regular
       ELSE [wins |-> regular.wins + playoffs.wins,
             score |-> regular.score + playoffs.score,
             tiebreaker |-> regular.tiebreaker + playoffs.tiebreaker]

\* User.get_season_leaderboard(season_id, regular_season_only, group_id): the
\* users with a pick in the season (members of the pool, when one is asked
\* for), ranked by score, then tiebreaker
season_leaderboard(rows, gs, grp, regular_only) ==
    LET us == {u \in Users : /\ \E p \in rows : p.user_id = u
                             /\ (grp = NoGroup \/ u \in group_members)}
        score(u) == season_stats(rows, gs, u, grp, regular_only).score
        tiebreaker(u) == season_stats(rows, gs, u, grp, regular_only).tiebreaker
    IN Orders(us, score, tiebreaker)

----------------------------------------------------------------------------
(* RegularSeasonSnapshot *)

snapshot_of(snaps, u, grp) == {s \in snaps : s.user_id = u /\ s.group_id = grp}

\* create_snapshot(season_id, group_id) over the leaderboard lb: a row is
\* added for every entry whose user has no row of the scope yet
create_snapshot(snaps, rows, gs, lb, grp) ==
    snaps \cup
    {[user_id |-> lb[rank], group_id |-> grp, final_rank |-> rank,
      total_wins |-> compute_stats(rows, gs, lb[rank], grp, FALSE).wins,
      total_score |-> compute_stats(rows, gs, lb[rank], grp, FALSE).score,
      tiebreaker_points |-> compute_stats(rows, gs, lb[rank], grp, FALSE).tiebreaker,
      is_playoff_eligible |-> rank <= playoff_places,
      is_superbowl_eligible |-> FALSE] :
        rank \in {r \in DOMAIN lb : snapshot_of(snaps, lb[r], grp) = {}}}

\* a leaderboard of every user with a snapshot of the scope
get_playoff_leaderboard_of_all(snaps, rows, gs, grp) ==
    LET us == {s.user_id : s \in {x \in snaps : x.group_id = grp}}
        playoff_wins(u) == compute_stats(rows, gs, u, grp, TRUE).wins
        total_tiebreaker(u) == compute_stats(rows, gs, u, grp, FALSE).tiebreaker
                               + compute_stats(rows, gs, u, grp, TRUE).tiebreaker
    IN Orders(us, playoff_wins, total_tiebreaker)

\* User.get_playoff_leaderboard: the playoff-eligible users of the scope's
\* snapshots, ranked by playoff wins, then season-long tiebreaker
get_playoff_leaderboard(snaps, rows, gs, grp) ==
    LET us == {s.user_id : s \in {x \in snaps : x.group_id = grp /\ x.is_playoff_eligible}}
        playoff_wins(u) == compute_stats(rows, gs, u, grp, TRUE).wins
        total_tiebreaker(u) == compute_stats(rows, gs, u, grp, FALSE).tiebreaker
                               + compute_stats(rows, gs, u, grp, TRUE).tiebreaker
    IN Orders(us, playoff_wins, total_tiebreaker)

\* update_superbowl_eligibility over the playoff leaderboard lb: the flag is
\* reset on the playoff-eligible rows of the scope and set on the rows of the
\* leaders
update_superbowl_eligibility(snaps, lb, grp) ==
    LET top == {lb[r] : r \in {x \in DOMAIN lb : x <= superbowl_places}} IN
    IF lb = <<>> THEN snaps
    ELSE {IF s.group_id # grp THEN s
          ELSE IF s.user_id \in top THEN [s EXCEPT !.is_superbowl_eligible = TRUE]
          ELSE IF s.is_playoff_eligible THEN [s EXCEPT !.is_superbowl_eligible = FALSE]
          ELSE s : s \in snaps}

Scopes == {NoGroup, current_group}

ScopeName(grp) == IF grp = NoGroup THEN "global" ELSE "pool"

CreateSnapshot(grp) ==
    /\ \E lb \in season_leaderboard(picks, games, grp, TRUE) :
         snapshots' = create_snapshot(snapshots, picks, games, lb, grp)
    /\ last' = JobAnswer("create_snapshot", TRUE, ScopeName(grp), 0, {})
    /\ UNCHANGED <<now, games, picks, current_week, sync_stats, inflight, tick>>
    /\ UNCHANGED <<is_complete, awards, notified, running>>

UpdateSuperbowlEligibility(grp) ==
    /\ \E lb \in get_playoff_leaderboard(snapshots, picks, games, grp) :
         snapshots' = update_superbowl_eligibility(snapshots, lb, grp)
    /\ last' = JobAnswer("update_superbowl_eligibility", TRUE, ScopeName(grp), 0, {})
    /\ UNCHANGED <<now, games, picks, current_week, sync_stats, inflight, tick>>
    /\ UNCHANGED <<is_complete, awards, notified, running>>

----------------------------------------------------------------------------
(* SeasonWinner.award_season_winners and Season.finalize_season *)

super_bowl_week == regular_season_weeks + playoff_weeks

award_types == <<"champion", "runner_up", "third_place">>

awarded(aw, u, grp, type) ==
    \E a \in aw : a.user_id = u /\ a.group_id = grp /\ a.award_type = type

\* a new row of season_winners; rows of the same season, user, pool and
\* award type are told apart by id
award_row(aw, u, grp, type, rank) ==
    [id |-> 1 + Cardinality({a \in aw : /\ a.user_id = u /\ a.group_id = grp
                                        /\ a.award_type = type}),
     user_id |-> u, group_id |-> grp, award_type |-> type, rank |-> rank]

add_award_unchecked(aw, u, grp, type, rank) ==
    aw \cup {award_row(aw, u, grp, type, rank)}

\* "existing = ...first(); if not existing: db.session.add(winner)"
add_award(aw, u, grp, type, rank) ==
    IF awarded(aw, u, grp, type) THEN aw
    ELSE aw \cup {award_row(aw, u, grp, type, rank)}

\* the awards of the first places of the leaderboard lb, from place i on
RECURSIVE award_top(_, _, _, _)
award_top(aw, lb, grp, i) ==
    IF i > Len(lb) \/ i > Len(award_types) THEN aw
    ELSE award_top(add_award(aw, lb[i], grp, award_types[i], i), lb, grp, i + 1)

\* the global awards when the Super Bowl game g and its eligible pickers
\* decide: champion and runner-up among the eligible pickers with a pick on
\* g, third place from the regular-season leaderboard.  Creating a champion
\* or runner-up row reads stats["wins"] of get_season_stats, which has no
\* such key: the run ends in a KeyError.
super_bowl_awards(aw, snaps, rows, gs, g) ==
    LET eligible == {s \in snaps : s.group_id = NoGroup /\ s.is_superbowl_eligible}
        sb_picks == {p \in rows : p.game_id = g}
        sb_users == {s.user_id : s \in eligible} \cap {p.user_id : p \in sb_picks}
        pick_maps == {m \in [sb_users -> sb_picks] : \A u \in sb_users : m[u].user_id = u}
    IN UNION {
         LET won(u) == IF m[u].is_correct = "true" THEN 1 ELSE 0
             rank(u) == -Min({s.final_rank : s \in {x \in eligible : x.user_id = u}})
         IN UNION {
              IF \E i \in DOMAIN sb_ranked :
                    i < Len(award_types) /\ ~awarded(aw, sb_ranked[i], NoGroup, award_types[i])
              THEN {[raised |-> TRUE, awards |-> aw]}
              ELSE {[raised |-> FALSE,
                     awards |-> IF \E i \in DOMAIN lb : lb[i] \notin sb_users
                                THEN add_award(aw,
                                       lb[Min({i \in DOMAIN lb : lb[i] \notin sb_users})],
                                       NoGroup, "third_place", 3)
                                ELSE aw] :
                    lb \in season_leaderboard(rows, gs, NoGroup, TRUE)} :
              sb_ranked \in Orders(sb_users, won, rank)} :
         m \in pick_maps}

\* the global awards of award_season_winners: by the Super Bowl when its game
\* is final and a global snapshot is Super Bowl eligible, else the first
\* places of the full-season leaderboard
global_awards(aw, snaps, rows, gs) ==
    LET sb_games == GamesOfWeek(super_bowl_week)
        use_super_bowl(g) == /\ g # 0
                             /\ gs[g].is_final
                             /\ \E s \in snaps : s.group_id = NoGroup /\ s.is_superbowl_eligible
    IN UNION {
         IF use_super_bowl(g) THEN super_bowl_awards(aw, snaps, rows, gs, g)
         ELSE {[raised |-> FALSE, awards |-> award_top(aw, lb, NoGroup, 1)] :
                  lb \in season_leaderboard(rows, gs, NoGroup, FALSE)} :
         g \in IF sb_games = {} THEN {0} ELSE sb_games}

\* SeasonWinner.award_season_winners: the global awards, then the champion of
\* the pool; what the table can hold afterwards, or raised
award_season_winners(aw, snaps, rows, gs) ==
    UNION {
      IF r.raised THEN {r}
      ELSE {[raised |-> FALSE,
             awards |-> IF lb = <<>> THEN r.awards
                        ELSE add_award(r.awards, lb[1], current_group, "champion", 1)] :
               lb \in season_leaderboard(rows, gs, current_group, FALSE)} :
      r \in global_awards(aw, snaps, rows, gs)}

\* the season's end as a record
SeasonEnd(complete, aw, n) == [is_complete |-> complete, awards |-> aw, notified |-> n]

finalize_season_unguarded(complete, aw, n, snaps, rows, gs) ==
    {IF r.raised THEN SeasonEnd(complete, aw, n)
     ELSE SeasonEnd(TRUE, r.awards, n + 1) :
        r \in award_season_winners(aw, snaps, rows, gs)}

\* Season.finalize_season: what the season's end can be afterwards.  An
\* exception of award_season_winners leaves the session to the caller's
\* rollback.
finalize_season(complete, aw, n, snaps, rows, gs) ==
    IF complete THEN {SeasonEnd(complete, aw, n)}
    ELSE {IF r.raised THEN SeasonEnd(complete, aw, n)
          ELSE SeasonEnd(TRUE, r.awards, n + 1) :
             r \in award_season_winners(aw, snaps, rows, gs)}

\* Season.check_super_bowl_complete
check_super_bowl_complete(complete, aw, n, snaps, rows, gs) ==
    IF /\ GamesOfWeek(super_bowl_week) # {}
       /\ \A g \in GamesOfWeek(super_bowl_week) : gs[g].is_final
       /\ ~complete
    THEN finalize_season(complete, aw, n, snaps, rows, gs)
    ELSE {SeasonEnd(complete, aw, n)}

\* SchedulerService._check_season_completion.  The season is the active one:
\* finalize_season clears is_active, and a complete season is not found.
check_season_completion(complete, aw, n, snaps, rows, gs) ==
    IF complete THEN {SeasonEnd(complete, aw, n)}
    ELSE check_super_bowl_complete(complete, aw, n, snaps, rows, gs)

\* a direct call of Season.finalize_season
FinalizeSeason ==
    /\ \E e \in finalize_season(is_complete, awards, notified, snapshots, picks, games) :
         /\ is_complete' = e.is_complete
         /\ awards' = e.awards
         /\ notified' = e.notified
         /\ last' = JobAnswer("finalize_season", e.is_complete /\ ~is_complete, "", 0, {})
    /\ UNCHANGED <<now, games, picks, current_week, sync_stats, inflight, tick>>
    /\ UNCHANGED <<snapshots, running>>

\* a direct call of SeasonWinner.award_season_winners
AwardSeasonWinners ==
    /\ \E r \in award_season_winners(awards, snapshots, picks, games) :
         /\ awards' = r.awards
         /\ last' = JobAnswer("award_season_winners", ~r.raised,
                              IF r.raised THEN "KeyError"
                              ELSE IF r.awards = awards THEN "no award created"
                              ELSE "awards created", 0, {})
    /\ UNCHANGED <<now, games, picks, current_week, sync_stats, inflight, tick>>
    /\ UNCHANGED <<snapshots, is_complete, notified, running>>

----------------------------------------------------------------------------
(* Scheduler jobs.  reported is the set of games the feed has results of.  *)

\* the ids _add_core_jobs gives the five jobs; force_sync names the same
\* functions by sync_type
JobFamilies ==
    {"sync_live_games", "sync_game_status", "hourly_sync", "daily_maintenance",
     "weekly_schedule_sync"}

\* the executions of job that have begun and not returned
executions(run, job) == {e \in run : e.job = job}

\* the job function returns: one execution of job that is in progress ends.
\* With none marked in progress the execution began and ended in this step.
ended(run, job) ==
    IF executions(run, job) = {} THEN {run}
    ELSE {run \ {e} : e \in executions(run, job)}

Ends(job) == \E r \in ended(running, job) : running' = r

\* _sync_live_games: Game.status is a plain Python property, so the filter
\* Game.status == "in_progress" is the constant False and the query finds no
\* game: the job returns at "if not live_games".
SyncLiveGames ==
    /\ ~is_complete
    /\ last' = JobAnswer("sync_live_games", TRUE, "no live games", 0, {})
    /\ UNCHANGED <<now, games, picks, current_week, sync_stats, inflight, tick>>
    /\ UNCHANGED season_end
    /\ Ends("sync_live_games")

recent_games ==
    {g \in GameIds : /\ game_week[g] \in {current_week - 1, current_week, current_week + 1}
                     /\ ~games[g].is_final
                     /\ game_time[g] <= now + six_hours}

\* what the attempts of one feed call come to
AttemptOutcomes == {"ok", "error"}

AllOk == [i \in 1 .. max_retries |-> "ok"]

\* the calls followed: the feed fails for some attempts and answers from then on
CallOutcomes ==
    {o \in [1 .. max_retries -> AttemptOutcomes] :
        \A i, j \in 1 .. max_retries : (i < j /\ o[i] = "ok") => o[j] = "ok"}

\* rate_limit_decorator around _make_api_request: the call is attempted until
\* an attempt succeeds, max_retries times at most, and the last attempt's
\* exception is raised
make_api_request(outcomes) ==
    LET succeeded == {i \in 1 .. max_retries : outcomes[i] = "ok"} IN
    IF succeeded = {} THEN [attempts |-> max_retries, raised |-> TRUE]
    ELSE [attempts |-> Min(succeeded), raised |-> FALSE]

\* _sync_game_status, phase 1: the scores of the recent games are fetched and
\* committed.  With newly final games the job goes on to phase 2.  calls
\* gives the outcomes of the attempts of the feed call of each reported game;
\* _update_game_score catches the exception of a call that failed for good
\* and answers that nothing changed.
SyncGameStatusCalls(reported, calls) ==
    /\ ~is_complete
    /\ tick.phase = "idle"
    /\ \E ans \in Feed(recent_games,
                       {g \in reported : ~make_api_request(calls[g]).raised}) :
         LET updated == updated_games(recent_games, ans)
             newly_final == newly_final_games(recent_games, ans)
             called == recent_games \cap reported
         IN
         /\ games' = update_scores(recent_games, ans)
         /\ tick' = IF newly_final # {}
                    THEN [NoTick EXCEPT !.phase = "phase2", !.newly_final = newly_final,
                                        !.todo = newly_final,
                                        !.before = {p \in picks : p.game_id \in newly_final}]
                    ELSE NoTick
         /\ sync_stats' = IF updated # {} /\ newly_final = {} THEN stats_success ELSE sync_stats
         /\ IF newly_final # {} THEN running' = running ELSE Ends("sync_game_status")
         /\ last' = [JobAnswer("sync_game_status", TRUE,
                               IF newly_final # {} THEN "phase 1 committed"
                               ELSE IF updated # {} THEN "updated" ELSE "no updates",
                               0, {})
                      EXCEPT !.feed_failed =
                                 {g \in called : make_api_request(calls[g]).raised},
                             !.attempts =
                                 Max({0} \cup {make_api_request(calls[g]).attempts :
                                                  g \in called}),
                             !.invalidated = updated # {}]
    /\ UNCHANGED <<now, picks, current_week, inflight>>
    /\ UNCHANGED season_end

\* the poll when every feed call succeeds at its first attempt
SyncGameStatus(reported) == SyncGameStatusCalls(reported, [g \in reported |-> AllOk])

\* an exception in phase 1 of _sync_game_status (a query or the commit of the
\* scores fails; _update_game_score catches its own): the except clause rolls
\* the session's score updates back and records the failure
SyncGameStatusFails ==
    /\ tick.phase = "idle"
    /\ games' = games
    /\ tick' = NoTick
    /\ sync_stats' = stats_failure
    /\ last' = JobAnswer("sync_game_status", FALSE, "phase 1 failed", 0, {})
    /\ UNCHANGED <<now, picks, current_week, inflight>>
    /\ UNCHANGED season_end
    /\ Ends("sync_game_status")

\* _hourly_sync: update_current_week, then DataSync.update_live_scores
HourlySync(reported) ==
    /\ ~is_complete
    /\ current_week' = get_current_week_auto(games)
    /\ LET ongoing == {g \in GameIds : ~games[g].is_final /\ game_time[g] <= now} IN
       \E ans \in Feed(ongoing, reported) :
         /\ games' = update_scores(ongoing, ans)
         /\ last' = [JobAnswer("hourly_sync", TRUE, "updated", 0,
                               newly_final_games(ongoing, ans))
                      EXCEPT !.invalidated = TRUE]
    /\ sync_stats' = stats_success
    /\ UNCHANGED <<now, picks, inflight, tick>>
    /\ UNCHANGED season_end
    /\ Ends("hourly_sync")

\* DataSync._sync_week_games on every week: the games table afterwards
sync_games(ans) ==
    [g \in GameIds |->
        IF ans[g].completed
        THEN [is_final |-> TRUE, home_score |-> ans[g].home, away_score |-> ans[g].away]
        ELSE games[g]]

\* _daily_maintenance and _weekly_schedule_sync: DataSync.sync_season_data
SeasonSync(job, reported) ==
    /\ ~is_complete
    /\ \E ans \in Feed(GameIds, reported) :
         /\ games' = sync_games(ans)
         /\ last' = [JobAnswer(job, TRUE, "synced", 0,
                               {g \in GameIds : ~games[g].is_final /\ ans[g].completed})
                      EXCEPT !.invalidated = TRUE]
    /\ sync_stats' = stats_success
    /\ UNCHANGED <<now, picks, current_week, inflight, tick>>
    /\ UNCHANGED season_end
    /\ Ends(job)

DailyMaintenance(reported) == SeasonSync("daily_maintenance", reported)

WeeklyScheduleSync(reported) == SeasonSync("weekly_schedule_sync", reported)

\* a trigger of job comes due in the BackgroundScheduler.  The job was added
\* with max_instances=1 and coalesce=True: while an execution the scheduler
\* submitted is in progress the run is skipped, and missed runs are rolled
\* into one; otherwise the job function is submitted to the executor.
SchedulerFires(job) ==
    /\ IF \E e \in executions(running, job) : e.by = "scheduler"
       THEN /\ running' = running
            /\ last' = JobAnswer(job, FALSE, "skipped: max_instances reached", 0, {})
       ELSE /\ Cardinality(running) < MaxExecutions
            /\ running' = running \cup {[job |-> job, by |-> "scheduler", id |-> 0]}
            /\ last' = JobAnswer(job, TRUE, "submitted", 0, {})
    /\ UNCHANGED <<now, games, picks, current_week, sync_stats, inflight, tick>>
    /\ UNCHANGED season_end

\* force_sync(sync_type), from admin_scheduler_action: the job function is
\* called in the request's thread, whatever the scheduler is running
ForceSync(job) ==
    /\ Cardinality(running) < MaxExecutions
    /\ LET mine == {e \in executions(running, job) : e.by = "admin"} IN
       running' = running \cup {[job |-> job, by |-> "admin", id |-> Cardinality(mine) + 1]}
    /\ last' = JobAnswer("force_sync", TRUE, job, 0, {})
    /\ UNCHANGED <<now, games, picks, current_week, sync_stats, inflight, tick>>
    /\ UNCHANGED season_end

\* fix_unscored_picks.py: every pick of a final game whose is_correct is NULL
\* is scored, in one transaction
FixUnscoredPicks ==
    /\ picks' = {IF games[p.game_id].is_final /\ p.is_correct = "null"
                 THEN update_result(games, p) ELSE p : p \in picks}
    /\ last' = JobAnswer("fix_unscored_picks", TRUE, "fixed", 0, {})
    /\ UNCHANGED <<now, games, current_week, sync_stats, inflight, tick>>
    /\ UNCHANGED <<season_end, running>>

----------------------------------------------------------------------------
(* _sync_game_status, phase 2: Pick.recalculate_for_game(game_id,          *)
(* commit=True) for each newly final game.  The picks of the game are      *)
(* loaded into the session, recomputed one by one, and committed together; *)
(* an exception ends the job in its except clause.                         *)

session_rows_of_final_games(rows, g) == {p \in rows : games[p.game_id].is_final}

\* the picks recalculate_for_game(g) loads: those of game g
session_rows(rows, g) == {p \in rows : p.game_id = g}

Phase2Load ==
    /\ tick.phase = "phase2"
    /\ tick.game = 0
    /\ \E g \in tick.todo :
         LET rows == session_rows(picks, g) IN
         /\ tick' = [tick EXCEPT !.game = g, !.loaded = rows, !.session = rows]
         /\ last' = JobAnswer("sync_game_status", TRUE, "phase 2 loaded", g, {})
    /\ UNCHANGED <<now, games, picks, current_week, sync_stats, inflight>>
    /\ UNCHANGED <<season_end, running>>

\* one pick of the session is recomputed
Phase2Score ==
    /\ tick.phase = "phase2"
    /\ tick.game # 0
    /\ \E p \in tick.session \cap tick.loaded :
         /\ update_result(games, p) # p
         /\ tick' = [tick EXCEPT !.session = (tick.session \ {p}) \cup {update_result(games, p)}]
         /\ last' = JobAnswer("sync_game_status", TRUE, "phase 2 scored", tick.game, {})
    /\ UNCHANGED <<now, games, picks, current_week, sync_stats, inflight>>
    /\ UNCHANGED <<season_end, running>>

\* the store after the session's rows are written: session holds the rows of
\* game g as they are to be
flushed(rows, g, session) == {p \in rows : p.game_id # g} \cup session

\* broadcast_game_final for each game of the tick that is final now: a
\* pick_result payload for every stored pick of the game, with the result
\* columns as stored
emit_score_updates(rows, tick_games) == {p \in rows : p.game_id \in tick_games}

\* the game's picks are all recomputed and db.session.commit() succeeds;
\* after the last game the job checks the season's completion, records its
\* success and emits the score updates
Phase2Commit ==
    /\ tick.phase = "phase2"
    /\ tick.game # 0
    /\ \A p \in tick.session : update_result(games, p) = p
    /\ picks' = flushed(picks, tick.game, tick.session)
    /\ LET todo == tick.todo \ {tick.game} IN
       /\ tick' = IF todo = {} THEN NoTick
                  ELSE [tick EXCEPT !.todo = todo, !.game = 0, !.loaded = {}, !.session = {}]
       /\ sync_stats' = IF todo = {} THEN stats_success ELSE sync_stats
       /\ last' = [JobAnswer("sync_game_status", TRUE, "phase 2 committed", tick.game,
                             IF todo = {} THEN tick.newly_final ELSE {})
                    EXCEPT !.pick_results =
                               IF todo = {}
                               THEN emit_score_updates(
                                        flushed(picks, tick.game, tick.session),
                                        tick.newly_final)
                               ELSE {}]
       /\ IF todo = {} THEN Ends("sync_game_status") ELSE running' = running
       /\ \E e \in IF todo = {}
                   THEN check_season_completion(is_complete, awards, notified, snapshots,
                                                flushed(picks, tick.game, tick.session), games)
                   ELSE {SeasonEnd(is_complete, awards, notified)} :
            /\ is_complete' = e.is_complete
            /\ awards' = e.awards
            /\ notified' = e.notified
    /\ UNCHANGED <<now, games, current_week, inflight>>
    /\ UNCHANGED snapshots

rollback_kept_session(rows, g, session) == {p \in rows : p.game_id # g} \cup session

\* db.session.rollback(): the store without the session's pending changes
rollback(rows, g, session) == rows

\* an exception in phase 2: the except clause of _sync_game_status rolls the
\* session back and records the failure.  The tick keeps what it had loaded
\* and recomputed.
Phase2Fail ==
    /\ tick.phase = "phase2"
    /\ picks' = rollback(picks, tick.game, tick.session)
    /\ tick' = [tick EXCEPT !.phase = "idle", !.todo = {}]
    /\ sync_stats' = stats_failure
    /\ last' = JobAnswer("sync_game_status", FALSE, "phase 2 failed", tick.game, {})
    /\ UNCHANGED <<now, games, current_week, inflight>>
    /\ UNCHANGED season_end
    /\ Ends("sync_game_status")

----------------------------------------------------------------------------
(* Scoring one pick: Pick.update_result applied to a pick of a game in any  *)
(* state, whatever the pick's columns held before.                         *)

Outcomes == {"null", "true", "false"}

InitScore ==
    /\ now = Max({game_time[g] : g \in GameIds})
    /\ \E g \in GameIds, ans \in {NoNews} \cup FinalAnswers :
         /\ games = [x \in GameIds |->
                       IF x = g /\ ans.completed
                       THEN [is_final |-> TRUE, home_score |-> ans.home, away_score |-> ans.away]
                       ELSE [is_final |-> FALSE, home_score |-> NoScore, away_score |-> NoScore]]
         /\ \E team \in TeamsOf(g), c \in Outcomes,
               pts \in 0 .. (2 * regular_season_points), tb \in (-MaxPoints) .. MaxPoints :
              picks = {[new_pick({}, 1, g, team, current_group) EXCEPT
                          !.is_correct = c, !.points_earned = pts, !.tiebreaker_points = tb]}
    /\ current_week = 1
    /\ sync_stats = [failed_syncs |-> 0, last_error |-> "none"]
    /\ inflight = {}
    /\ tick = NoTick
    /\ snapshots = {}
    /\ is_complete = FALSE
    /\ awards = {}
    /\ notified = 0
    /\ running = {}
    /\ last = JobAnswer("init", TRUE, "", 0, {})

UpdateResult ==
    /\ \E p \in picks :
         /\ picks' = (picks \ {p}) \cup {update_result(games, p)}
         /\ last' = Answer("update_result", p.user_id, p.game_id, p.selected_team_id,
                           FALSE, TRUE, "", 0, {})
    /\ UNCHANGED <<now, games, current_week, sync_stats, inflight, tick>>
    /\ UNCHANGED <<season_end, running>>

----------------------------------------------------------------------------
(* admin_picks with admin_override checked: the administrator of the pool   *)
(* sets the pick of member u for the form's week to team in game g.  The   *)
(* form's week and game are separate fields.                               *)

AdminGames == {1, 2}

\* the existing pick as the update branch leaves it: team and game_id are
\* assigned, and with a final new game update_result runs on the game the
\* pick's relationship still holds, the old one
admin_updated(gs, existing, g, team) ==
    LET moved == [existing EXCEPT !.selected_team_id = team, !.game_id = g,
                                  !.id = IF g = existing.game_id THEN existing.id
                                         ELSE NewId(picks, existing.user_id, g,
                                                    existing.group_id)]
    IN IF gs[g].is_final THEN update_result_on(gs, moved, existing.game_id) ELSE moved

\* the existing-pick query of admin_picks: the member's picks of the active
\* season on a game of the form's week, in any pool
admin_existing(rows, u, week) ==
    {p \in rows : /\ p.user_id = u
                  /\ p.season_id = current_season_id
                  /\ game_week[p.game_id] = week}

AdminPicks(u, week, g, team) ==
    /\ \E existing \in First(admin_existing(picks, u, week)) :
         LET row == admin_updated(games, existing, g, team) IN
         IF team \notin TeamsOf(g) THEN
            /\ picks' = picks
            /\ last' = Answer("admin_picks", u, g, team, TRUE, FALSE,
                              "Team is not playing in this game.", 0, {})
         ELSE IF existing.id = 0 THEN
            \* the message of log_pick_creation names the undefined variable
            \* team: the request ends in a NameError before its commit
            /\ picks' = picks
            /\ last' = Answer("admin_picks", u, g, team, TRUE, FALSE, "NameError", 0, {})
         ELSE IF g # existing.game_id /\ unique_violation(picks \ {existing}, row) THEN
            /\ picks' = picks
            /\ last' = Answer("admin_picks", u, g, team, TRUE, FALSE, "IntegrityError", 0, {})
         ELSE
            /\ picks' = (picks \ {existing}) \cup {row}
            /\ last' = Answer("admin_picks", u, g, team, TRUE, TRUE, "Pick updated",
                              existing.game_id, {})
    /\ UNCHANGED <<now, games, current_week, sync_stats, inflight, tick>>
    /\ UNCHANGED <<season_end, running>>

\* the other rows of the pick's user, season and pool-scope: base_filter of
\* _validate_team_rules, week_filter of _validate_week_rules
base_filter(rows, p) ==
    {q \in rows : /\ q # p
                  /\ q.user_id = p.user_id
                  /\ q.season_id = p.season_id
                  /\ q.group_id = p.group_id}

\* Pick._validate_basic_conditions, on the game og that self.game holds
validate_basic_conditions(gs, og) ==
    IF has_started(og) THEN "Game has already started"
    ELSE IF gs[og].is_final THEN "Game is already complete"
    ELSE "Basic conditions valid"

\* Pick._validate_week_rules: what it can answer, by the row first() returns
validate_week_rules(rows, p, og) ==
    {IF e.id # 0 /\ has_started(e.game_id)
     THEN "Cannot switch pick" ELSE "Week rules valid" :
        e \in First({q \in base_filter(rows, p) : game_week[q.game_id] = game_week[og]})}

\* Pick._validate_team_rules
validate_team_rules(rows, p, og) ==
    LET week == game_week[og]
        special == is_playoff_week(week)
    IN
    IF ~special /\ \E q \in base_filter(rows, p) :
                      /\ q.selected_team_id = p.selected_team_id
                      /\ game_week[q.game_id] < week
    THEN {"Team already used in game week"}
    ELSE IF week > 1 /\ ~special
    THEN {IF e.id # 0 /\ e.is_correct = "false" /\ e.selected_team_id = p.selected_team_id
          THEN "Cannot use losing team" ELSE "Team rules valid" :
             e \in First({q \in base_filter(rows, p) : game_week[q.game_id] = week - 1})}
    ELSE {"Team rules valid"}

\* Pick.is_valid_pick of the row p of rows, whose game relationship holds og:
\* the answers it can give, "Valid pick" among them when it can pass
is_valid_pick(rows, gs, p, og) ==
    IF validate_basic_conditions(gs, og) # "Basic conditions valid"
    THEN {validate_basic_conditions(gs, og)}
    ELSE UNION {IF w # "Week rules valid" THEN {w}
                ELSE {IF t # "Team rules valid" THEN t ELSE "Valid pick" :
                         t \in validate_team_rules(rows, p, og)} :
                   w \in validate_week_rules(rows, p, og)}

\* Pick.create_pick(u, g, team): what it returns and the session's rows then.
\* The new pick has the season of its game and no group.
create_pick(rows, u, g, team) ==
    LET week_picks == {p \in rows : /\ p.user_id = u
                                    /\ p.season_id = game_season_id(g)
                                    /\ game_week[p.game_id] = game_week[g]}
    IN
    UNION {
      IF ewp.id # 0 /\ ewp.game_id = g THEN
         IF has_started(g)
         THEN {[pick |-> NoPick, message |-> "Cannot change pick: Game has already started",
                rows |-> rows]}
         ELSE LET row == [ewp EXCEPT !.selected_team_id = team] IN
              {[pick |-> row, message |-> "Pick updated successfully",
                rows |-> (rows \ {ewp}) \cup {row}]}
      ELSE IF ewp.id # 0 /\ has_started(ewp.game_id) THEN
         {[pick |-> NoPick, message |-> "Cannot switch pick", rows |-> rows]}
      ELSE
         LET kept == rows \ {ewp}
             pick == [new_pick(kept, u, g, team, NoGroup) EXCEPT
                         !.season_id = game_season_id(g)]
         IN {IF t # "Team rules valid"
             THEN [pick |-> NoPick, message |-> t, rows |-> kept]
             ELSE [pick |-> pick, message |-> "Pick created successfully",
                   rows |-> kept \cup {pick}] :
                t \in validate_team_rules(kept, pick, g)} :
      ewp \in First(week_picks)}

teardown_commits(rows, session) == session

\* a request ends without db.session.commit(): the scoped session is removed
\* when the request's context is torn down, and what it had flushed is gone
teardown(rows, session) == rows

\* admin_picks with admin_override not checked.  The answer to a denied
\* creation names in deleted the game of the pick the session had deleted.
AdminPicksValidated(u, week, g, team) ==
    /\ \E existing \in First(admin_existing(picks, u, week)) :
         LET row == admin_updated(games, existing, g, team)
             flushed_rows == (picks \ {existing}) \cup {row}
         IN
         IF team \notin TeamsOf(g) THEN
            /\ picks' = picks
            /\ last' = Answer("admin_picks", u, g, team, FALSE, FALSE,
                              "Team is not playing in this game.", 0, {})
         ELSE IF existing.id # 0 THEN
            \* the update branch: is_valid_pick runs on the game the pick's
            \* relationship still holds, and its first query flushes the row
            IF validate_basic_conditions(games, existing.game_id) # "Basic conditions valid" THEN
               /\ picks' = picks
               /\ last' = Answer("admin_picks", u, g, team, FALSE, FALSE,
                                 validate_basic_conditions(games, existing.game_id), 0, {})
            ELSE IF g # existing.game_id /\ unique_violation(picks \ {existing}, row) THEN
               /\ picks' = picks
               /\ last' = Answer("admin_picks", u, g, team, FALSE, FALSE,
                                 "IntegrityError", 0, {})
            ELSE \E v \in is_valid_pick(flushed_rows, games, row, existing.game_id) :
               IF v # "Valid pick" THEN
                  \* db.session.rollback()
                  /\ picks' = picks
                  /\ last' = Answer("admin_picks", u, g, team, FALSE, FALSE, v, 0, {})
               ELSE
                  /\ picks' = flushed_rows
                  /\ last' = Answer("admin_picks", u, g, team, FALSE, TRUE, "Pick updated",
                                    existing.game_id, {})
         ELSE
            \* Pick.create_pick; without a pick nothing is committed and the
            \* session's deletion is discarded with the request
            \E c \in create_pick(picks, u, g, team) :
               IF c.pick.id = 0 THEN
                  /\ picks' = teardown(picks, c.rows)
                  /\ last' = Answer("admin_picks", u, g, team, FALSE, FALSE, c.message,
                                    Max({0} \cup {p.game_id : p \in picks \ c.rows}), {})
               ELSE
                  /\ picks' = IF games[g].is_final
                              THEN (c.rows \ {c.pick}) \cup {update_result(games, c.pick)}
                              ELSE c.rows
                  /\ last' = Answer("admin_picks", u, g, team, FALSE, TRUE, c.message, 0, {})
    /\ UNCHANGED <<now, games, current_week, sync_stats, inflight, tick>>
    /\ UNCHANGED <<season_end, running>>

AdminPicksRequests ==
    \E u \in Pickers, g \in AdminGames, week \in {game_week[x] : x \in GameIds} :
        \E team \in TeamsOf(g) : AdminPicks(u, week, g, team)

----------------------------------------------------------------------------
(* The end of the season: the day after the last kick-off, the regular     *)
(* season played and scored, the Super Bowl not yet recorded.  The global  *)
(* snapshots have been created and the Super Bowl eligibility set, or the  *)
(* season has no snapshot.                                                 *)

SeasonGames == GamesOfWeek(super_bowl_week)

InitSeasonEnd ==
    /\ now = Max({game_time[g] : g \in GameIds}) + 1
    /\ games = [g \in GameIds |->
                  IF is_playoff_week(game_week[g])
                  THEN [is_final |-> FALSE, home_score |-> NoScore, away_score |-> NoScore]
                  ELSE [is_final |-> TRUE, home_score |-> MaxPoints, away_score |-> 0]]
    /\ \E regular \in [Users -> TeamsOf(1)],
          final \in [Users -> {0} \cup UNION {TeamsOf(g) : g \in SeasonGames}] :
         picks = {update_result(games, new_pick({}, u, 1, regular[u], group_id_of(u))) :
                     u \in Users}
                 \cup {new_pick({}, u, g, final[u], group_id_of(u)) :
                          u \in {x \in Users : final[x] # 0}, g \in SeasonGames}
    /\ current_week = get_current_week_auto(games)
    /\ sync_stats = [failed_syncs |-> 0, last_error |-> "none"]
    /\ inflight = {}
    /\ tick = NoTick
    /\ snapshots \in
         {{}} \cup
         UNION {{update_superbowl_eligibility(create_snapshot({}, picks, games, lb, NoGroup),
                                              plb, NoGroup) :
                    plb \in get_playoff_leaderboard(
                                create_snapshot({}, picks, games, lb, NoGroup),
                                picks, games, NoGroup)} :
                  lb \in season_leaderboard(picks, games, NoGroup, TRUE)}
    /\ is_complete = FALSE
    /\ awards = {}
    /\ notified = 0
    /\ running = {}
    /\ last = JobAnswer("init", TRUE, "", 0, {})

----------------------------------------------------------------------------
(* Specifications *)

\* a picker's requests, the clock, the hourly sync and the repair script
NextPicker ==
    \/ AdvanceClock
    \/ PickerSubmits
    \/ HourlySync(GameIds)
    \/ FixUnscoredPicks

SpecPicker == Init /\ [][NextPicker]_vars

\* requests of a picker and of an administrator acting for the picker
NextAdmin ==
    \/ AdvanceClock
    \/ PickerSubmits
    \/ AdminSubmits

SpecAdmin == Init /\ [][NextAdmin]_vars

\* requests of a picker that overlap
NextConc ==
    \/ AdvanceClock
    \/ BeginSubmits
    \/ CommitSubmits

SpecConc == Init /\ [][NextConc]_vars

\* update_result on its own
SpecScore == InitScore /\ [][UpdateResult]_vars

\* the scheduler's jobs, with two pickers' picks on the games of SyncGames
NextSync ==
    \/ AdvanceClock
    \/ Submits(Users, SyncGames, FALSE)
    \/ SyncLiveGames
    \/ SyncGameStatus(SyncGames)
    \/ Phase2Load
    \/ Phase2Score
    \/ Phase2Commit
    \/ Phase2Fail
    \/ HourlySync(SyncGames)
    \/ DailyMaintenance(SyncGames)
    \/ WeeklyScheduleSync(SyncGames)

SpecSync == Init /\ [][NextSync]_vars

\* two pickers' picks on the games of SyncGames, their scoring, and the
\* snapshots of the two scopes
NextSnapshot ==
    \/ AdvanceClock
    \/ Submits(Users, SyncGames, FALSE)
    \/ HourlySync(SyncGames)
    \/ FixUnscoredPicks
    \/ \E grp \in Scopes : CreateSnapshot(grp)
    \/ \E grp \in Scopes : UpdateSuperbowlEligibility(grp)

SpecSnapshot == Init /\ [][NextSnapshot]_vars

\* a picker's requests on the games of AdminGames, their scoring, and the
\* administrator's pick management
NextAdminPicks ==
    \/ AdvanceClock
    \/ Submits(Pickers, AdminGames, FALSE)
    \/ HourlySync(AdminGames)
    \/ FixUnscoredPicks
    \/ AdminPicksRequests

SpecAdminPicks == Init /\ [][NextAdminPicks]_vars

\* the games table also holds a final game of the season before
InitSeasons ==
    /\ now = 0
    /\ games = [g \in GameIds \cup PastGames |->
                  IF g \in PastGames
                  THEN [is_final |-> TRUE, home_score |-> MaxPoints, away_score |-> 0]
                  ELSE [is_final |-> FALSE, home_score |-> NoScore, away_score |-> NoScore]]
    /\ picks = {}
    /\ current_week = 1
    /\ sync_stats = [failed_syncs |-> 0, last_error |-> "none"]
    /\ inflight = {}
    /\ tick = NoTick
    /\ snapshots = {}
    /\ is_complete = FALSE
    /\ awards = {}
    /\ notified = 0
    /\ running = {}
    /\ last = JobAnswer("init", TRUE, "", 0, {})

\* the games table also holds the second game of week 2
InitDenied ==
    /\ now = 0
    /\ games = [g \in GameIds \cup ExtraGames |->
                  [is_final |-> FALSE, home_score |-> NoScore, away_score |-> NoScore]]
    /\ picks = {}
    /\ current_week = 1
    /\ sync_stats = [failed_syncs |-> 0, last_error |-> "none"]
    /\ inflight = {}
    /\ tick = NoTick
    /\ snapshots = {}
    /\ is_complete = FALSE
    /\ awards = {}
    /\ notified = 0
    /\ running = {}
    /\ last = JobAnswer("init", TRUE, "", 0, {})

\* the games the picker's requests of SpecDenied are made on: one of week 1
\* and one of week 2; the administrator's are made on the other game of week 2
DeniedGames == {1, 3}

\* the member whose picks are global, as the picks of Pick.create_pick are
GlobalPickers == {u \in Users : picks_are_global[u]}

\* admin_picks posted without override, the form's week being the game's or
\* a later one
AdminPicksValidatedRequests ==
    \E u \in GlobalPickers, g \in ExtraGames :
        \E team \in TeamsOf(g), week \in {game_week[x] : x \in GameIds} :
            week >= game_week[g] /\ AdminPicksValidated(u, week, g, team)

\* a picker's requests and the administrator's validated pick management,
\* with the hourly sync scoring the picks
NextDenied ==
    \/ AdvanceClock
    \/ Submits(GlobalPickers, DeniedGames, FALSE)
    \/ AdminPicksValidatedRequests
    \/ HourlySync(DeniedGames)

SpecDenied == InitDenied /\ [][NextDenied]_vars

\* admin_picks posted with any game of the table, with and without override
AdminPicksAnyGame ==
    \E u \in Pickers, g \in SyncGames \cup PastGames,
       week \in {game_week[x] : x \in GameIds} :
        \E team \in TeamsOf(g) :
            \/ AdminPicks(u, week, g, team)
            \/ AdminPicksValidated(u, week, g, team)

\* a picker's requests and the administrator's pick management over the games
\* of two seasons
NextSeasons ==
    \/ AdvanceClock
    \/ Submits(Pickers, SyncGames, FALSE)
    \/ AdminPicksAnyGame

SpecSeasons == InitSeasons /\ [][NextSeasons]_vars

\* the jobs on the Super Bowl and the season's finalization
NextSeason ==
    \/ SyncGameStatus(SeasonGames)
    \/ Phase2Load
    \/ Phase2Score
    \/ Phase2Commit
    \/ Phase2Fail
    \/ HourlySync(SeasonGames)
    \/ FinalizeSeason

SpecSeason == InitSeasonEnd /\ [][NextSeason]_vars

\* the status poll over two games of different weeks, with a picker's picks
FrameGames == {1, 3}

NextFrame ==
    \/ AdvanceClock
    \/ Submits(Pickers, FrameGames, FALSE)
    \/ SyncGameStatus(FrameGames)
    \/ Phase2Load
    \/ Phase2Score
    \/ Phase2Commit
    \/ Phase2Fail

SpecFrame == Init /\ [][NextFrame]_vars

\* the synchronizer on the Super Bowl.  The scheduler keeps firing the status
\* poll's interval trigger, and a poll that has begun runs to its end.
NextSeasonSync ==
    \/ SyncGameStatus(SeasonGames)
    \/ Phase2Load
    \/ Phase2Score
    \/ Phase2Commit
    \/ Phase2Fail
    \/ HourlySync(SeasonGames)

SpecSeasonSync ==
    /\ InitSeasonEnd
    /\ [][NextSeasonSync]_vars
    /\ WF_vars(SyncGameStatus(SeasonGames))
    /\ WF_vars(Phase2Load)
    /\ WF_vars(Phase2Score)
    /\ WF_vars(Phase2Commit \/ Phase2Fail)

\* the Super Bowl's result, the scoring of its picks, and the award runs
NextAwards ==
    \/ HourlySync(SeasonGames)
    \/ FixUnscoredPicks
    \/ UpdateSuperbowlEligibility(NoGroup)
    \/ AwardSeasonWinners

SpecAwards == InitSeasonEnd /\ [][NextAwards]_vars

\* the jobs started by the scheduler and by force_sync, with the status poll
\* followed through its phases
NextJobs ==
    \/ AdvanceClock
    \/ \E job \in JobFamilies : SchedulerFires(job)
    \/ \E job \in JobFamilies : ForceSync(job)
    \/ SyncLiveGames
    \/ SyncGameStatus(SyncGames)
    \/ Phase2Load
    \/ Phase2Commit
    \/ Phase2Fail
    \/ HourlySync(SyncGames)
    \/ DailyMaintenance(SyncGames)
    \/ WeeklyScheduleSync(SyncGames)

SpecJobs == Init /\ [][NextJobs]_vars

\* the status poll over two games, with the failures of its two phases
NextFailure ==
    \/ AdvanceClock
    \/ Submits(Pickers, FrameGames, FALSE)
    \/ SyncGameStatus(FrameGames)
    \/ SyncGameStatusFails
    \/ Phase2Load
    \/ Phase2Score
    \/ Phase2Commit
    \/ Phase2Fail

SpecFailure == Init /\ [][NextFailure]_vars

\* the status poll with its phase 2 failure, and the jobs run by the scheduler
\* or forced by an administrator afterwards
NextRecover ==
    \/ AdvanceClock
    \/ Submits(Pickers, SyncGames, FALSE)
    \/ SyncGameStatus(SyncGames)
    \/ Phase2Load
    \/ Phase2Score
    \/ Phase2Commit
    \/ Phase2Fail
    \/ \E job \in JobFamilies : ForceSync(job)
    \/ SyncLiveGames
    \/ HourlySync(SyncGames)
    \/ DailyMaintenance(SyncGames)
    \/ WeeklyScheduleSync(SyncGames)

SpecRecover == Init /\ [][NextRecover]_vars

\* the status poll with feed calls that fail, for some attempts or for good
NextFeed ==
    \/ AdvanceClock
    \/ Submits(Pickers, FrameGames, FALSE)
    \/ \E calls \in [FrameGames -> CallOutcomes] :
          SyncGameStatusCalls(FrameGames, calls)
    \/ SyncGameStatusFails
    \/ Phase2Load
    \/ Phase2Score
    \/ Phase2Commit
    \/ Phase2Fail

SpecFeed == Init /\ [][NextFeed]_vars

----------------------------------------------------------------------------
(* Properties *)

submitted == last.op = "submit_picks"

\* the picks of user u in the pool-scope of u's requests, and those of week w
scope_picks(rows, u) == {p \in rows : p.user_id = u /\ p.group_id = group_id_of(u)}

week_picks(rows, u, w) == {p \in scope_picks(rows, u) : game_week[p.game_id] = w}

UsedReason == "Team already used this season"

LosingReason == "Cannot pick losing team from previous game week"

OpponentReason == "Opponent was involved in previous week pick"

\* C1: in every reachable state no two picks of the same user with the same
\* group_id reference games of the same week.
C1_OnePickPerWeek ==
    \A p \in picks, q \in picks :
        (p # q /\ p.user_id = q.user_id /\ p.group_id = q.group_id)
            => game_week[p.game_id] # game_week[q.game_id]

\* C2: two submissions of one picker for two different games of one week and
\* pool-scope, each validated before the other committed, are never both
\* committed.
C2_NotBothCommitted ==
    \A r \in inflight, q \in inflight :
        (/\ q.id \in r.overlaps
         /\ r.user = q.user
         /\ game_week[r.game] = game_week[q.game]
         /\ r.game # q.game)
            => ~(r.status = "committed" /\ q.status = "committed")

C4_FinalizedPicksScored ==
    (tick.phase = "idle" /\ last.ok) =>
        \A g \in last.finalized : \A p \in picks :
            p.game_id = g => (games[g].is_final /\ p = update_result(games, p))

\* C5: when phase 2 has failed on a game, the stored picks of that game are
\* the ones stored when phase 2 loaded them: none shows a recomputed value.
C5_AllOrNothing ==
    (last.op = "sync_game_status" /\ last.reason = "phase 2 failed" /\ last.game # 0) =>
        {p \in picks : p.game_id = last.game} = tick.loaded

\* phase 2 failed on a game with two picks after one of them was recomputed
C5_Witness ==
    /\ last.op = "sync_game_status"
    /\ last.reason = "phase 2 failed"
    /\ Cardinality(tick.loaded) >= 2
    /\ \E p \in tick.session : p \notin tick.loaded
    /\ \E p \in tick.session : p \in tick.loaded /\ update_result(games, p) # p

\* C6: after non-admin submissions no two picks of a picker in regular weeks
\* of one pool-scope select the same team, and a non-admin submission for a
\* regular week naming a team that another pick of the scope selects is
\* denied.
C6_OneTeamPerSeason ==
    /\ \A p \in picks, q \in picks :
         (/\ p # q /\ p.user_id = q.user_id /\ p.group_id = q.group_id
          /\ ~is_playoff_week(game_week[p.game_id])
          /\ ~is_playoff_week(game_week[q.game_id]))
             => p.selected_team_id # q.selected_team_id
    /\ (/\ submitted /\ ~last.admin /\ ~is_playoff_week(last.week)
        /\ \E p \in scope_picks(picks, last.user) :
             p.game_id # last.game /\ p.selected_team_id = last.team)
           => ~last.ok

\* a picker holding two regular-week picks was denied a team already used
C6_Witness ==
    /\ submitted /\ ~last.admin /\ ~last.ok
    /\ last.reason = UsedReason
    /\ \E p \in scope_picks(picks, last.user) : p.selected_team_id = last.team
    /\ \E p \in week_picks(picks, last.user, 1) : \E q \in week_picks(picks, last.user, 2) : p # q

\* the step of C7: a non-admin submission on game B by a picker holding a pick
\* on another game A of B's week and pool-scope is denied and leaves the pick on A when A
\* has started; when A has not started and the submission is accepted, the
\* pick on A is gone and the picker's picks of the week are on B only.
C7_Step ==
    (last'.op = "submit_picks" /\ ~last'.admin) =>
        \A a \in week_picks(picks, last'.user, last'.week) :
            a.game_id # last'.game =>
                IF has_started(a.game_id)
                THEN ~last'.ok /\ a \in picks'
                ELSE last'.ok =>
                       /\ a \notin picks'
                       /\ \A p \in week_picks(picks', last'.user, last'.week) :
                            p.game_id = last'.game

\* C7: in every step that is a non-admin submission on game B by a picker
\* holding a pick on another game A of B's week and pool-scope, the submission
\* is denied and the pick on A stays if A has started, and, if A has not
\* started and the submission is accepted, the pick on A is deleted and the
\* pick on B is the picker's only pick of the week.
C7_Switch == [][C7_Step]_vars

\* the case of C8: a non-admin submission for an open game of a regular week
\* w > 1 naming the team of a week w-1 pick that was scored a loss
C8_Case ==
    /\ submitted /\ ~last.admin
    /\ ~is_playoff_week(last.week) /\ last.week > 1
    /\ is_pickable(last.game)
    /\ \E p \in week_picks(picks, last.user, last.week - 1) :
         p.selected_team_id = last.team /\ p.is_correct = "false"

\* C8 as stated: the submission is denied with the losing-team reason.
C8_DeniedAsLosingTeam == C8_Case => (~last.ok /\ last.reason = LosingReason)

\* C8, amended: the submission is denied, with the reason of the
\* one-team-per-season check, which runs first.
C8_DeniedAsUsedTeam == C8_Case => (~last.ok /\ last.reason = UsedReason)

C8_Witness == C8_Case /\ ~last.ok /\ last.reason = UsedReason

\* C9: a non-admin submission for a game of an elimination week is never
\* denied with the one-team-per-season, the losing-team or the
\* repeat-opponent reason.
C9_PlayoffExempt ==
    (submitted /\ ~last.admin /\ is_playoff_week(last.week)) =>
        last.reason \notin {UsedReason, LosingReason, OpponentReason}

\* the case of C10: a non-admin submission for a game of a regular week w > 1
C10_Case ==
    /\ submitted /\ ~last.admin
    /\ ~is_playoff_week(last.week) /\ last.week > 1

\* C10 as stated: when the opponent of a week w-1 pick's team plays in the
\* proposed game, the submission is denied whichever team it names.
C10_DeniedWhicheverTeam ==
    (/\ C10_Case
     /\ \E p \in week_picks(picks, last.user, last.week - 1) :
          opponent_of(p.game_id, p.selected_team_id) \in TeamsOf(last.game))
        => ~last.ok

\* C10, amended: when the opponent of the team the submission names played
\* in the game of every week w-1 pick the picker holds in the scope, the
\* submission is denied.
C10_DeniedAgainstInvolvedTeam ==
    (/\ C10_Case
     /\ week_picks(picks, last.user, last.week - 1) # {}
     /\ \A p \in week_picks(picks, last.user, last.week - 1) :
          opponent_of(last.game, last.team) \in TeamsOf(p.game_id))
        => ~last.ok

\* a submission was denied with the repeat-opponent reason
C10_Witness ==
    /\ C10_Case
    /\ \E p \in week_picks(picks, last.user, last.week - 1) :
         opponent_of(last.game, last.team) \in TeamsOf(p.game_id)
    /\ ~last.ok
    /\ last.reason = OpponentReason

\* C11: a second create_snapshot for a scope that already has snapshot rows
\* leaves the snapshots table as it was
C11_Step ==
    (/\ last'.op = "create_snapshot"
     /\ \E s \in snapshots : ScopeName(s.group_id) = last'.reason)
    => snapshots' = snapshots

C11_SecondCallNoOp == [][C11_Step]_vars

\* C12: no snapshot row is Super Bowl eligible without being playoff eligible
C12_SuperbowlWithinPlayoff ==
    \A s \in snapshots : s.is_superbowl_eligible => s.is_playoff_eligible

C12_Witness ==
    /\ last.op = "update_superbowl_eligibility"
    /\ \E s, t \in snapshots :
         /\ s.group_id = t.group_id
         /\ ScopeName(s.group_id) = last.reason
         /\ s.is_superbowl_eligible
         /\ ~t.is_playoff_eligible

\* C13: a pick whose game is not final has no outcome, no points and no
\* tiebreak value
C13_UnscoredUntilFinal ==
    \A p \in picks :
        ~games[p.game_id].is_final
        => p.is_correct = "null" /\ p.points_earned = 0 /\ p.tiebreaker_points = 0

\* C14: the season is finalized at most once: is_complete is never taken
\* back, the notifications are sent at most once, and a completion check or
\* a finalize_season call on a complete season changes neither the awards
\* nor the notifications
C14_Step ==
    /\ is_complete => is_complete'
    /\ notified' <= 1
    /\ (is_complete /\ last'.op \in {"finalize_season", "sync_game_status"})
       => awards' = awards /\ notified' = notified

C14_FinalizedOnce == [][C14_Step]_vars

C14_Witness ==
    /\ is_complete
    /\ notified = 1
    /\ awards # {}
    /\ last.op = "finalize_season"
    /\ ~last.ok

\* C15: once every game of the last week is final, the season is eventually
\* finalized by the synchronizer
C15_EventuallyFinalized ==
    (\A g \in SeasonGames : games[g].is_final) ~> is_complete

\* C16: a step of the status poll leaves every pick of a game outside the
\* tick's newly final games as it is, and the newly final games are those
\* that phase 1 found not final and left final
C16_Step ==
    last'.op = "sync_game_status" =>
        /\ \A q \in picks : q.game_id \notin tick.newly_final => q \in picks'
        /\ \A q \in picks' : q \notin picks => q.game_id \in tick.newly_final
        /\ tick'.phase = "phase2" /\ tick.phase = "idle" =>
              tick'.newly_final = {g \in GameIds : ~games[g].is_final /\ games'[g].is_final}

C16_OnlyNewlyFinal == [][C16_Step]_vars

\* phase 2 has scored the picks of a newly final game while a pick of a game
\* that was final before the tick is still unscored
C16_Witness ==
    /\ last.op = "sync_game_status"
    /\ last.reason = "phase 2 committed"
    /\ \E q \in picks : q.game_id \in last.finalized /\ q.is_correct # "null"
    /\ \E q \in picks : /\ q.game_id \notin last.finalized
                         /\ games[q.game_id].is_final
                         /\ update_result(games, q) # q

\* C17: no two award rows share user, pool and award type, and a run of
\* award_season_winners adds a row only for an award that was not there
C17_Step ==
    /\ \A a, b \in awards' :
          (a.user_id = b.user_id /\ a.group_id = b.group_id /\ a.award_type = b.award_type)
          => a = b
    /\ \A a \in awards' \ awards : ~awarded(awards, a.user_id, a.group_id, a.award_type)

C17_OneAwardPerTuple == [][C17_Step]_vars

C17_Witness ==
    /\ last.op = "award_season_winners"
    /\ last.reason = "no award created"
    /\ awards # {}

\* C18: at any time at most one execution of each job family is in progress,
\* whether the scheduler started it or an administrator's force_sync did
C18_OneExecutionPerFamily ==
    \A job \in JobFamilies : Cardinality(executions(running, job)) <= 1

\* C19: when phase 1 or phase 2 of the status poll raises, the stored games
\* and the stored picks of the poll's newly final games are what they were
\* before the phase began, failed_syncs is one higher (up to the bound it is
\* counted to) and last_error holds the error.
C19_Step ==
    (last'.op = "sync_game_status" /\ ~last'.ok) =>
        /\ games' = games
        /\ last'.reason = "phase 2 failed" =>
              {p \in picks' : p.game_id \in tick'.newly_final} = tick'.before
        /\ sync_stats'.failed_syncs =
              IF sync_stats.failed_syncs < MaxFailedSyncs
              THEN sync_stats.failed_syncs + 1 ELSE sync_stats.failed_syncs
        /\ sync_stats'.last_error = "error"

C20_RescoreIdempotent ==
    (last.op = "update_result" /\ games[last.game].is_final) =>
        LET again == {update_result(games, p) : p \in picks} IN
        /\ \A p \in picks : update_result(games, p) = p
        /\ \A u \in Users, playoff \in BOOLEAN :
              compute_stats(again, games, u, current_group, playoff)
                = compute_stats(picks, games, u, current_group, playoff)

\* a pick of a final game has been scored as a win, with its points
C20_Witness ==
    /\ last.op = "update_result"
    /\ games[last.game].is_final
    /\ \E p \in picks : /\ p.game_id = last.game
                        /\ p.is_correct = "true"
                        /\ p.points_earned > 0

\* C21: the game of every stored pick belongs to the season stored on the
\* pick.
C21_PickSeasonIsGameSeason ==
    \A p \in picks : p.season_id = game_season_id(p.game_id)

\* the step of C22: an accepted admin-override submission on game B for a
\* picker holding a pick on another game A of B's week and pool-scope deletes
\* the pick on A and leaves the picker's picks of the week on B only
C22_Step ==
    (last'.op = "submit_picks" /\ last'.admin /\ last'.ok) =>
        \A a \in week_picks(picks, last'.user, last'.week) :
            a.game_id # last'.game =>
                /\ a \notin picks'
                /\ \A p \in week_picks(picks', last'.user, last'.week) :
                     p.game_id = last'.game

\* C22: every admin-override submission for a picker who holds a pick on
\* another game of the same week and pool-scope deletes that pick, and the new
\* pick is the picker's only pick of the week.
C22_AdminSupersedes == [][C22_Step]_vars

\* The checks of a picker's submission of team in game g, on the picks the
\* picker holds: (1) the game is not open for picks, (2) another pick of the
\* week and pool-scope is on a game that has started, (3) the team is used by
\* a pick that the submission does not replace, (4) the team is the one of the
\* previous week's lost pick, (5) the opponent took part in the previous
\* week's pick's game.
ContestStateFails(g) == ~is_pickable(g)

WeekPickFails(u, g) ==
    \E a \in week_picks(picks, u, game_week[g]) : a.game_id # g /\ has_started(a.game_id)

TeamUsedFails(u, g, team) ==
    /\ ~is_playoff_week(game_week[g])
    /\ \E p \in scope_picks(picks, u) \ week_picks(picks, u, game_week[g]) :
         p.selected_team_id = team

LosingTeamFails(u, g, team) ==
    /\ game_week[g] > 1
    /\ \E p \in week_picks(picks, u, game_week[g] - 1) :
         p.is_correct = "false" /\ p.selected_team_id = team

OpponentFails(u, g, team) ==
    /\ ~is_playoff_week(game_week[g])
    /\ game_week[g] > 1
    /\ \E p \in week_picks(picks, u, game_week[g] - 1) :
         opponent_of(g, team) \in TeamsOf(p.game_id)

SwitchReason == "Cannot switch pick"

ClosedReason == "Game no longer available for picks"

\* C23 as stated: a picker's submission is answered with the reason of the
\* first failing check in the order (1) contest state, (2) single pick per
\* week, (3) one team per season, (4) losing-team repeat, (5) repeat opponent.
C23_StatedStep ==
    (last'.op = "submit_picks" /\ ~last'.admin) =>
        LET u == last'.user
            g == last'.game
            team == last'.team
        IN IF ContestStateFails(g) THEN ~last'.ok /\ last'.reason = ClosedReason
           ELSE IF WeekPickFails(u, g) THEN ~last'.ok /\ last'.reason = SwitchReason
           ELSE IF TeamUsedFails(u, g, team) THEN ~last'.ok /\ last'.reason = UsedReason
           ELSE IF LosingTeamFails(u, g, team) THEN ~last'.ok /\ last'.reason = LosingReason
           ELSE IF OpponentFails(u, g, team) THEN ~last'.ok /\ last'.reason = OpponentReason
           ELSE last'.ok

C23_Step ==
    (last'.op = "submit_picks" /\ ~last'.admin) =>
        LET u == last'.user
            g == last'.game
            team == last'.team
        IN IF ContestStateFails(g) THEN ~last'.ok /\ last'.reason = ClosedReason
           ELSE IF TeamUsedFails(u, g, team) THEN ~last'.ok /\ last'.reason = UsedReason
           ELSE IF LosingTeamFails(u, g, team) THEN ~last'.ok /\ last'.reason = LosingReason
           ELSE IF OpponentFails(u, g, team) THEN ~last'.ok /\ last'.reason = OpponentReason
           ELSE IF WeekPickFails(u, g) THEN ~last'.ok /\ last'.reason = SwitchReason
           ELSE last'.ok

C24_Step ==
    (/\ last'.ok
     /\ \E e \in running \ running' : e.by = "admin"
     /\ tick.phase = "idle") =>
        \A g \in tick.newly_final : \A p \in picks' :
            p.game_id = g => p = update_result(games', p)

\* C24: after phase 2 has failed for a game that phase 1 committed as final,
\* a forced resync of a job family that completes without error leaves every
\* pick of the game scored.
C24_ForcedResyncRecovers == [][C24_Step]_vars

\* the step of C25: a status poll makes at most max_retries attempts on a
\* feed call, and a poll in which a call failed for good commits nothing,
\* leaves the tick idle and records a failure
C25_Step ==
    (last'.op = "sync_game_status" /\ last'.reason \notin {"phase 2 loaded", "phase 2 scored",
                                                         "phase 2 committed", "phase 2 failed"}) =>
        /\ last'.attempts <= max_retries
        /\ last'.feed_failed # {} =>
              /\ games' = games
              /\ tick'.phase = "idle"
              /\ ~last'.ok
              /\ sync_stats'.failed_syncs =
                    IF sync_stats.failed_syncs < MaxFailedSyncs
                    THEN sync_stats.failed_syncs + 1 ELSE sync_stats.failed_syncs
              /\ sync_stats'.last_error = "error"

\* C25: a feed call is attempted at most three times, and a status poll in
\* which the call for a game still fails after the last attempt commits
\* nothing and is recorded as a failed sync.
C25_FeedFailureAbortsTick == [][C25_Step]_vars

\* the step of C26: a game that is final keeps its scores and its final flag
C26_Step ==
    \A g \in GameIds : games[g].is_final => games'[g] = games[g]

\* C26: once a game is final, no synchronizer job changes its home score, its
\* away score or its final flag, whatever the feed reports afterwards.
C26_FinalGamesImmutable == [][C26_Step]_vars

\* a pick carries the result the calculator gives it for its game as it is
scored(gs, p) == gs[p.game_id].is_final /\ update_result(gs, p) = p

\* the step of C27: a status poll that clears the cache or emits pick_result
\* payloads does so with the picks of the tick's newly final games scored
C27_Step ==
    /\ (last'.op = "sync_game_status" /\ last'.invalidated)
          => \A p \in picks' : p.game_id \in tick'.newly_final => scored(games', p)
    /\ \A r \in last'.pick_results : scored(games', r)

\* C27: within a tick the cache is invalidated and the game_final and
\* pick_result notifications of a newly final game are emitted only after
\* phase 2 has persisted the results of that game's picks; no pick_result of a
\* final game is emitted before the pick has been scored.
C27_NotifiedAfterPhase2 == [][C27_Step]_vars

\* the step of C28: a request that is denied leaves the stored picks as they were
C28_Step ==
    (last'.op \in {"submit_picks", "admin_picks"} /\ ~last'.ok) => picks' = picks

\* C28: a pick submission the validator denies changes nothing: after a denied
\* picker submission, a denied admin update without override and a denied
\* Pick.create_pick the stored picks and all their fields are what they were.
C28_DeniedChangesNothing == [][C28_Step]_vars

\* Pick.create_pick has deleted the week's pick in its session and then denied
\* the new pick; the deleted pick is still stored
C28_Witness ==
    /\ last.op = "admin_picks"
    /\ ~last.ok
    /\ last.deleted # 0
    /\ last.deleted # last.game
    /\ \E p \in picks : p.user_id = last.user /\ p.game_id = last.deleted

\* a result column of the pick has been written
result_set(p) == p.is_correct # "null" \/ p.points_earned # 0 \/ p.tiebreaker_points # 0

\* C29: every pick of a final game whose result has been set holds the outcome,
\* the points and the tiebreak the calculator gives for the pick's selected team
\* and the game's scores as they are now, after any sequence of sync jobs and
\* pick edits, an admin's change of team on a final game included.
C29_StoredResultIsCalculated ==
    \A p \in picks :
        (games[p.game_id].is_final /\ result_set(p)) => update_result(games, p) = p

\* the snapshot rows of a scope
scope_snapshots(grp) == {s \in snapshots : s.group_id = grp}

\* C30: after any sequence of create_snapshot calls, new picks and scoring, a
\* scope has at most playoff_places playoff-eligible snapshot rows (four in the
\* code), and no two rows of a scope share a final_rank.
C30_RanksDistinctAndEligibleBounded ==
    \A grp \in Scopes :
        /\ Cardinality({s \in scope_snapshots(grp) : s.is_playoff_eligible})
               <= playoff_places
        /\ \A s, t \in scope_snapshots(grp) : s.final_rank = t.final_rank => s = t

====
